---- MODULE Spec2Model ----
(***************************************************************************)
(* Model of src/src/csromer/animations/animations.py: ColormapManager,     *)
(* DataConfig (units factor, config_axes) and AnimationCreator (colour     *)
(* scale selection in __init__, the frame loop of create_animation).       *)
(*                                                                         *)
(* Numbers.  A real value is a record [n, d, p] standing for               *)
(* (n / d) * pi^p with d > 0, gcd(n, d) = 1 and p = 0 when n = 0.  The     *)
(* only irrational the program uses is pi / 180 (units "rad"), so every    *)
(* quantity of config_axes is a rational multiple of one power of pi and   *)
(* its sign, order and quotients are decided on the rational part.         *)
(***************************************************************************)
EXTENDS Integers, Sequences, FiniteSets, TLC

VARIABLES
    pc,          \* position of the script: new, constructed, saving, done, error
    err,         \* the exception that ended the run ("" when none)
    header,      \* AnimationCreator.header
    cube,        \* AnimationCreator.cube: sequence of frames (rows of values)
    cube_axis,   \* AnimationCreator.cube_axis: sequence of values
    cmap,        \* AnimationCreator.cmap
    arg_vmin,    \* the vmin argument of __init__
    arg_vmax,    \* the vmax argument of __init__
    vmin,        \* AnimationCreator.vmin
    vmax,        \* AnimationCreator.vmax
    im,          \* the image im: [shown, data, cmap, extent, clim]
    ax_title,    \* the title of ax
    i,           \* the next frame index FuncAnimation.save hands to animate
    frames,      \* the frames grabbed so far by ani.save, in order
    dc_pc,       \* position of a stand-alone DataConfig: new, ready, done, error
    dc_units,    \* DataConfig.units
    dc_header,   \* DataConfig.header
    u_factor,    \* DataConfig.u_factor
    dc_axes      \* the list config_axes returned: [x, y, x1, y1]

acVars == <<pc, err, header, cube, cube_axis, cmap, arg_vmin, arg_vmax, vmin, vmax,
            im, ax_title, i, frames>>
dcVars == <<dc_pc, dc_units, dc_header, u_factor, dc_axes>>
vars == <<acVars, dcVars>>

-----------------------------------------------------------------------------
(* Bounds of the model *)

MaxFrames == 3

-----------------------------------------------------------------------------
(* Arithmetic on values (n / d) * pi^p *)

RECURSIVE Gcd(_, _)
Gcd(a, b) == IF b = 0 THEN a ELSE Gcd(b, a % b)

AbsInt(a) == IF a < 0 THEN -a ELSE a

Norm(n, d, p) ==
    IF n = 0 THEN [n |-> 0, d |-> 1, p |-> 0]
    ELSE LET s == IF d < 0 THEN -1 ELSE 1
             g == Gcd(AbsInt(n), AbsInt(d))
         IN  [n |-> (s * n) \div g, d |-> (s * d) \div g, p |-> p]

Q(n, d) == Norm(n, d, 0)
Zero == Q(0, 1)
One == Q(1, 1)

Mul(a, b) == Norm(a.n * b.n, a.d * b.d, a.p + b.p)
Neg(a) == [a EXCEPT !.n = -a.n]
Abs(a) == [a EXCEPT !.n = AbsInt(a.n)]
\* Sums are only taken of multiples of the same power of pi (or of zero).
Add(a, b) ==
    IF a.n = 0 THEN b
    ELSE IF b.n = 0 THEN a
    ELSE Norm(a.n * b.d + b.n * a.d, a.d * b.d, a.p)
Sub(a, b) == Add(a, Neg(b))
Lt(a, b) == Sub(a, b).n < 0
IsPos(a) == a.n > 0
\* ceil(a / b) for b # 0, a and b multiples of the same power of pi
CeilDiv(a, b) ==
    LET num == a.n * b.d
        den == a.d * b.n
        sn == IF den < 0 THEN -num ELSE num
        sd == AbsInt(den)
    IN  -((-sn) \div sd)

-----------------------------------------------------------------------------
(* ColormapManager *)

get_colormaps ==
    << "magma", "inferno", "inferno_r", "plasma", "viridis",
       "bone", "afmhot", "gist_heat", "CMRmap", "gnuplot",
       "Blues_r", "Purples_r", "ocean", "hot", "seismic_r", "ocean_r" >>

Range(s) == {s[k] : k \in DOMAIN s}

-----------------------------------------------------------------------------
(* DataConfig *)

PiOver180 == Norm(1, 180, 1)

\* Variant: the factors of "arcmin" and "arcsec" exchanged.
_set_units_factor_swapped(units) ==
    IF units = "arcmin" THEN Q(3600, 1)
    ELSE IF units = "arcsec" THEN Q(60, 1)
    ELSE IF units = "rad" THEN PiOver180
    ELSE One

_set_units_factor(units) ==
    IF units = "arcmin" THEN Q(60, 1)
    ELSE IF units = "arcsec" THEN Q(3600, 1)
    ELSE IF units = "rad" THEN PiOver180
    ELSE One

\* np.arange(start, stop, step): ceil((stop - start) / step) elements
\* start + k * step; a zero step is an error.
arange(start, stop, step) ==
    IF step.n = 0 THEN [err |-> TRUE, arr |-> << >>]
    ELSE LET len == CeilDiv(Sub(stop, start), step)
         IN  [err |-> FALSE,
              arr |-> IF len <= 0 THEN << >>
                      ELSE [k \in 1..len |-> Add(start, Mul(Q(k - 1, 1), step))]]

\* Variant: the absolute value taken for y1 as it is for x1.
config_axes_symmetric(h, factor) ==
    LET dx == Mul(h.cdelt1, factor)
        dy == Mul(h.cdelt2, factor)
        x1 == Mul(Sub(h.crpix1, One), Abs(dx))
        y1 == Mul(Sub(h.crpix2, One), Abs(dy))
        x == arange(x1, Sub(Neg(x1), dx), Neg(dx))
        y == arange(Neg(y1), Add(y1, dy), dy)
    IN  [err |-> x.err \/ y.err, x |-> x.arr, y |-> y.arr, x1 |-> x1, y1 |-> y1]

\* config_axes: the arrays of lines 54-55 are overwritten at lines 58-59
\* and do not reach the result.
config_axes(h, factor) ==
    LET dx == Mul(h.cdelt1, factor)
        dy == Mul(h.cdelt2, factor)
        x1 == Mul(Sub(h.crpix1, One), Abs(dx))
        y1 == Mul(Sub(h.crpix2, One), dy)
        x == arange(x1, Sub(Neg(x1), dx), Neg(dx))
        y == arange(Neg(y1), Add(y1, dy), dy)
    IN  [err |-> x.err \/ y.err, x |-> x.arr, y |-> y.arr, x1 |-> x1, y1 |-> y1]

-----------------------------------------------------------------------------
(* AnimationCreator *)

NoneVal == [some |-> FALSE, v |-> 0]
Some(x) == [some |-> TRUE, v |-> x]

SetMax(S) == CHOOSE m \in S : \A x \in S : x <= m
SetMin(S) == CHOOSE m \in S : \A x \in S : m <= x

\* np.amax(a, axis=0) / np.amin(a, axis=0) of a non-empty cube: the
\* element-wise extremum over the frames, a single frame.
\* Variant: the maximum taken of the first frame alone.
amax_first_frame(c) == c[1]

amax_axis0(c) ==
    [r \in DOMAIN c[1] |-> [k \in DOMAIN c[1][r] |-> SetMax({c[f][r][k] : f \in DOMAIN c})]]
amin_axis0(c) ==
    [r \in DOMAIN c[1] |-> [k \in DOMAIN c[1][r] |-> SetMin({c[f][r][k] : f \in DOMAIN c})]]

\* np.amax(a) / np.amin(a) of one frame: the extremum of all its values.
amax(a) == SetMax({a[r][k] : r \in DOMAIN a, k \in DOMAIN a[1]})
amin(a) == SetMin({a[r][k] : r \in DOMAIN a, k \in DOMAIN a[1]})

\* Variant: the bounds recomputed only when both are missing.
color_scale_both_missing(c, lo, hi) ==
    IF ~lo.some /\ ~hi.some
    THEN IF Len(c) = 0
         THEN [err |-> TRUE, vmin |-> lo, vmax |-> hi]
         ELSE [err |-> FALSE, vmin |-> Some(amin(amin_axis0(c))),
                              vmax |-> Some(amax(amax_axis0(c)))]
    ELSE [err |-> FALSE, vmin |-> lo, vmax |-> hi]

\* Lines 104-106: the colour scale __init__ leaves in (self.vmin, self.vmax);
\* err when the reduction is taken of an empty cube.
color_scale(c, lo, hi) ==
    IF ~lo.some \/ ~hi.some
    THEN IF Len(c) = 0
         THEN [err |-> TRUE, vmin |-> lo, vmax |-> hi]
         ELSE [err |-> FALSE, vmin |-> Some(amin(amin_axis0(c))),
                              vmax |-> Some(amax(amax_axis0(c)))]
    ELSE [err |-> FALSE, vmin |-> lo, vmax |-> hi]

\* format(v, ".4f"): the decimal with 4 fractional digits nearest to v, ties to
\* the even digit, as [neg, whole, frac].  v is a rational (p = 0).
format4f(v) ==
    LET num == AbsInt(v.n) * 10000
        q0 == num \div v.d
        rem == num % v.d
        q == IF 2 * rem > v.d THEN q0 + 1
             ELSE IF 2 * rem = v.d THEN q0 + (q0 % 2)
             ELSE q0
    IN  [neg |-> v.n < 0, whole |-> q \div 10000, frac |-> q % 10000]

PlainTitle(text) ==
    [prefix |-> text, has |-> FALSE, neg |-> FALSE, whole |-> 0, frac |-> 0, suffix |-> ""]

\* Line 139: f"Faraday Depth Spectrum at {phi_i:.4f} rad/m^2"
frame_title(phi_i) ==
    LET t == format4f(phi_i)
    IN  [prefix |-> "Faraday Depth Spectrum at ", has |-> TRUE, neg |-> t.neg,
         whole |-> t.whole, frac |-> t.frac, suffix |-> " rad/m^2"]

\* Variant: every frame read from the first entry.
frame_index_first(k) == 1

\* The index of cube and cube_axis that animate(k) reads (0-based k).
frame_index(k) == k + 1

\* Variant: every other frame drawn.
next_frame_skipping(k) == k + 2

\* frames=len(self.cube): the frame that follows frame k in range(len(cube)).
next_frame(k) == k + 1

NoImage == [shown |-> FALSE, data |-> << >>, cmap |-> "", extent |-> << >>,
            clim |-> <<NoneVal, NoneVal>>]

\* Lines 117-123: imshow(cv0, cmap=self.cmap, extent=[x1, -x1, -y1, y1]); no
\* vmin or vmax is given, so the limits start as the extrema of cv0.
imshow(cv0, cm, axes) ==
    [shown |-> TRUE, data |-> cv0, cmap |-> cm,
     extent |-> <<axes.x1, Neg(axes.x1), Neg(axes.y1), axes.y1>>,
     clim |-> <<Some(amin(cv0)), Some(amax(cv0))>>]

\* Variant: the limits taken from the frame (the lines 137-138 left as comments).
animate_image_autoscale(img, arr, lo, hi) ==
    [img EXCEPT !.data = arr, !.clim = <<Some(amin(arr)), Some(amax(arr))>>]

\* Lines 141-142: what animate leaves in the image.
animate_image(img, arr, lo, hi) == [img EXCEPT !.data = arr, !.clim = <<lo, hi>>]

-----------------------------------------------------------------------------
(* Inputs *)

Header(c1, c2, p1, p2) == [cdelt1 |-> c1, cdelt2 |-> c2, crpix1 |-> p1, crpix2 |-> p2]

\* The header of the script (line 156) and headers with a negative, a zero
\* and a fractional entry.
Headers ==
    { Header(Q(1, 2), Q(1, 2), Q(50, 1), Q(50, 1)),
      Header(Q(-1, 2), Q(1, 4), Q(2, 1), Q(3, 2)),
      Header(Q(1, 4), Q(-1, 2), Q(1, 1), Q(3, 1)),
      Header(Q(0, 1), Q(1, 2), Q(2, 1), Q(2, 1)) }

\* Equal-shaped 2 x 2 frames.
FrameSet ==
    { << <<-5, 10>>, <<10, -5>> >>,
      << <<0, 3>>, <<3, 0>> >>,
      << <<12, 0>>, <<-8, 1>> >> }

\* Values of cube_axis: binary fractions, which a float holds exactly.
AxisVals == { Q(-10, 1), Q(3, 32) }

SeqsUpTo(S, n) == UNION {[1..k -> S] : k \in 0..n}

Cubes == SeqsUpTo(FrameSet, MaxFrames)

\* "Spectral" is the default of the cmap parameter (line 91).
CmapArgs == { "Spectral", "plasma" }

VminArgs == { NoneVal, Some(-1) }
VmaxArgs == { NoneVal, Some(2) }

UnitsArgs == { "degrees", "arcmin", "arcsec", "rad", "deg", "Arcmin", "" }

DcHeaders ==
    { Header(c1, c2, p1, p2) :
        c1 \in { Q(-1, 2), Q(0, 1), Q(1, 2) },
        c2 \in { Q(-1, 4), Q(1, 2) },
        p1 \in { Q(1, 1), Q(3, 2), Q(2, 1), Q(50, 1) },
        p2 \in { Q(1, 1), Q(5, 2), Q(50, 1) } }

NoHeader == Header(Zero, Zero, Zero, Zero)
NoAxes == [err |-> FALSE, x |-> << >>, y |-> << >>, x1 |-> Zero, y1 |-> Zero]

-----------------------------------------------------------------------------
(* The script: AnimationCreator(...) then create_animation() *)

Init ==
    /\ pc = "new"
    /\ err = ""
    /\ header = NoHeader
    /\ cube = << >>
    /\ cube_axis = << >>
    /\ cmap = ""
    /\ arg_vmin = NoneVal
    /\ arg_vmax = NoneVal
    /\ vmin = NoneVal
    /\ vmax = NoneVal
    /\ im = NoImage
    /\ ax_title = PlainTitle("")
    /\ i = 0
    /\ frames = << >>
    /\ dc_pc = "new"
    /\ dc_units = ""
    /\ dc_header = NoHeader
    /\ u_factor = Zero
    /\ dc_axes = NoAxes

\* AnimationCreator.__init__ (lines 91-106)
AnimationCreatorInit ==
    /\ pc = "new"
    /\ \E h \in Headers, c \in Cubes, cm \in CmapArgs, lo \in VminArgs, hi \in VmaxArgs :
         \E ca \in [1..Len(c) -> AxisVals] :
            LET cs == color_scale(c, lo, hi)
            IN  /\ header' = h
                /\ cube' = c
                /\ cube_axis' = ca
                /\ cmap' = cm
                /\ arg_vmin' = lo
                /\ arg_vmax' = hi
                /\ vmin' = cs.vmin
                /\ vmax' = cs.vmax
                /\ pc' = IF cs.err THEN "error" ELSE "constructed"
                /\ err' = IF cs.err THEN "ValueError" ELSE ""
    /\ UNCHANGED <<im, ax_title, i, frames, dcVars>>

\* Variant: an empty cube goes on to ani.save with nothing shown.
CreateAnimationSetupLenient ==
    /\ pc = "constructed"
    /\ IF Len(cube) = 0
       THEN /\ pc' = "saving"
            /\ UNCHANGED <<err, im, ax_title>>
       ELSE LET axes == config_axes(header, _set_units_factor("degrees"))
            IN  IF axes.err
                THEN /\ pc' = "error"
                     /\ err' = "ArangeError"
                     /\ UNCHANGED <<im, ax_title>>
                ELSE /\ pc' = "saving"
                     /\ im' = imshow(cube[1], cmap, axes)
                     /\ ax_title' = PlainTitle("Sample Animation")
                     /\ UNCHANGED err
    /\ UNCHANGED <<header, cube, cube_axis, cmap, arg_vmin, arg_vmax, vmin, vmax,
                   i, frames, dcVars>>

\* create_animation up to the construction of FuncAnimation (lines 112-152):
\* cube[0] is read, DataConfig(self.cube[0], self.header) has the default
\* units, and the first frame is shown.
CreateAnimationSetup ==
    /\ pc = "constructed"
    /\ IF Len(cube) = 0
       THEN /\ pc' = "error"
            /\ err' = "IndexError"
            /\ UNCHANGED <<im, ax_title>>
       ELSE LET axes == config_axes(header, _set_units_factor("degrees"))
            IN  IF axes.err
                THEN /\ pc' = "error"
                     /\ err' = "ArangeError"
                     /\ UNCHANGED <<im, ax_title>>
                ELSE /\ pc' = "saving"
                     /\ im' = imshow(cube[1], cmap, axes)
                     /\ ax_title' = PlainTitle("Sample Animation")
                     /\ UNCHANGED err
    /\ UNCHANGED <<header, cube, cube_axis, cmap, arg_vmin, arg_vmax, vmin, vmax,
                   i, frames, dcVars>>

\* ani.save draws the frames 0 .. len(cube) - 1 in turn (frames=len(self.cube),
\* lines 144-153); this is animate(i) (lines 134-142) and the grab of the frame.
Animate ==
    /\ pc = "saving"
    /\ i < Len(cube)
    /\ LET arr == cube[frame_index(i)]
           phi_i == cube_axis[frame_index(i)]
           img == animate_image(im, arr, vmin, vmax)
           ttl == frame_title(phi_i)
       IN  /\ ax_title' = ttl
           /\ im' = img
           /\ frames' = Append(frames, [index |-> i, data |-> img.data, clim |-> img.clim,
                                        cmap |-> img.cmap, extent |-> img.extent,
                                        title |-> ttl])
    /\ i' = next_frame(i)
    /\ UNCHANGED <<pc, err, header, cube, cube_axis, cmap, arg_vmin, arg_vmax, vmin, vmax,
                   dcVars>>

\* The frame sequence is exhausted: ani.save hands the frames to the encoder
\* and returns (line 153).
SaveFinish ==
    /\ pc = "saving"
    /\ i >= Len(cube)
    /\ pc' = "done"
    /\ UNCHANGED <<err, header, cube, cube_axis, cmap, arg_vmin, arg_vmax, vmin, vmax,
                   im, ax_title, i, frames, dcVars>>

Next == AnimationCreatorInit \/ CreateAnimationSetup \/ Animate \/ SaveFinish

Spec == Init /\ [][Next]_vars

-----------------------------------------------------------------------------
(* A DataConfig on its own: DataConfig(data, header, units).config_axes() *)

\* DataConfig.__init__ (lines 28-32)
DataConfigInit ==
    /\ dc_pc = "new"
    /\ \E h \in DcHeaders, u \in UnitsArgs :
         /\ dc_header' = h
         /\ dc_units' = u
         /\ u_factor' = _set_units_factor(u)
    /\ dc_pc' = "ready"
    /\ UNCHANGED <<dc_axes, acVars>>

\* DataConfig.config_axes (lines 46-60)
ConfigAxes ==
    /\ dc_pc = "ready"
    /\ LET axes == config_axes(dc_header, u_factor)
       IN  /\ dc_axes' = axes
           /\ dc_pc' = IF axes.err THEN "error" ELSE "done"
    /\ UNCHANGED <<dc_units, dc_header, u_factor, acVars>>

NextDC == DataConfigInit \/ ConfigAxes

SpecDC == Init /\ [][NextDC]_vars

-----------------------------------------------------------------------------
(* Properties *)

Constructed == pc \in {"constructed", "saving", "done"}

CubeValues(c) == {c[f][r][k] : f \in DOMAIN c, r \in DOMAIN c[1], k \in DOMAIN c[1][1]}
GlobalMin(c) == CHOOSE m \in CubeValues(c) : \A x \in CubeValues(c) : m <= x
GlobalMax(c) == CHOOSE m \in CubeValues(c) : \A x \in CubeValues(c) : x <= m

ScriptHeader ==
    [cdelt1 |-> [n |-> 1, d |-> 2, p |-> 0], cdelt2 |-> [n |-> 1, d |-> 2, p |-> 0],
     crpix1 |-> [n |-> 50, d |-> 1, p |-> 0], crpix2 |-> [n |-> 50, d |-> 1, p |-> 0]]

C2_FrameShowsCubeAndAxis ==
    (Len(cube) = Len(cube_axis) /\ Len(cube) >= 1) =>
        /\ \A k \in 1..Len(frames) :
              LET t == frames[k].title
                  v == cube_axis[k]
                  q == t.whole * 10000 + t.frac
                  e == q * v.d - (IF v.n < 0 THEN -v.n ELSE v.n) * 10000
              IN  /\ frames[k].data = cube[k]
                  /\ t.prefix = "Faraday Depth Spectrum at "
                  /\ t.has
                  /\ t.suffix = " rad/m^2"
                  /\ t.frac \in 0..9999
                  /\ t.neg = (v.n < 0)
                  /\ 2 * (IF e < 0 THEN -e ELSE e) <= v.d
        /\ (pc = "done" => Len(frames) = Len(cube))

C2_Witness ==
    /\ pc = "done"
    /\ Len(frames) = 2
    /\ cube[1] # cube[2]
    /\ cube_axis[1] # cube_axis[2]
    /\ frames[2].title.whole = 0
    /\ frames[2].title.frac = 938

\* C3: constructed with neither vmin nor vmax, a non-empty cube gets
\* (vmin, vmax) = (least value, greatest value) of all frames; the frames
\* holding -5, 10 and 0, 3 give (-5, 10).
C3_GlobalColorScale ==
    (Constructed /\ ~arg_vmin.some /\ ~arg_vmax.some /\ Len(cube) >= 1) =>
        /\ vmin = [some |-> TRUE, v |-> GlobalMin(cube)]
        /\ vmax = [some |-> TRUE, v |-> GlobalMax(cube)]
        /\ (cube = << << <<-5, 10>>, <<10, -5>> >>, << <<0, 3>>, <<3, 0>> >> >>
               => vmin.v = -5 /\ vmax.v = 10)

C3_Witness ==
    /\ pc = "constructed"
    /\ ~arg_vmin.some /\ ~arg_vmax.some
    /\ cube = << << <<0, 3>>, <<3, 0>> >>, << <<12, 0>>, <<-8, 1>> >> >>
    /\ vmin.v = -8 /\ vmax.v = 12

\* C4: after construction create_animation never changes (vmin, vmax), and
\* the colour limits of every drawn frame are that pair.
C4_ColorScaleConstant ==
    [][ /\ (pc # "new" => vmin' = vmin /\ vmax' = vmax)
        /\ \A k \in 1..Len(frames') : frames'[k].clim = <<vmin', vmax'>>
      ]_vars

C4_Witness ==
    /\ Len(frames) = 2
    /\ arg_vmin.some /\ arg_vmax.some
    /\ frames[1].clim = frames[2].clim
    /\ amin(frames[1].data) # amin(frames[2].data)
    /\ amax(frames[2].data) # vmax.v

\* C5 as claimed: with an empty cube the program raises no error of its own.
C5_EmptyCubeRaisesNothing ==
    (pc # "new" /\ Len(cube) = 0) => err = ""

\* C5 as amended: with an empty cube no frame is drawn, nothing is shown and
\* the encoder is never reached: the constructor fails in the min/max
\* reduction unless both vmin and vmax are supplied, and then create_animation
\* fails reading cube[0].
C5_EmptyCubeFailsBeforeEncoder ==
    (pc # "new" /\ Len(cube) = 0) =>
        /\ frames = << >>
        /\ ~im.shown
        /\ pc \in {"constructed", "error"}
        /\ (pc = "constructed" => arg_vmin.some /\ arg_vmax.some /\ err = "")
        /\ (pc = "error" =>
               err = IF arg_vmin.some /\ arg_vmax.some THEN "IndexError" ELSE "ValueError")

C5_Witness ==
    /\ Len(cube) = 0
    /\ pc = "error"
    /\ err = "IndexError"

\* C6 as claimed: every colormap name that reaches the render call is one of
\* the names ColormapManager holds.
C6_CmapInAllowList ==
    im.shown => im.cmap \in Range(get_colormaps)

\* C7: the extent of the first render is [x1, -x1, -y1, y1] with
\* x1 = (crpix1 - 1) * |cdelt1| and y1 = (crpix2 - 1) * cdelt2 (the factor of
\* the DataConfig of create_animation is 1); the header of the script gives
\* [24.5, -24.5, -24.5, 24.5].
C7_ExtentOfFirstRender ==
    im.shown =>
        LET e == im.extent
            h == header
            a1 == IF h.cdelt1.n < 0 THEN -h.cdelt1.n ELSE h.cdelt1.n
        IN  /\ Len(e) = 4
            /\ \A k \in 1..4 : e[k].p = 0 /\ e[k].d > 0
            /\ e[1].n * (h.crpix1.d * h.cdelt1.d) = e[1].d * ((h.crpix1.n - h.crpix1.d) * a1)
            /\ e[4].n * (h.crpix2.d * h.cdelt2.d)
                  = e[4].d * ((h.crpix2.n - h.crpix2.d) * h.cdelt2.n)
            /\ e[2].n * e[1].d = -e[1].n * e[2].d
            /\ e[3].n * e[4].d = -e[4].n * e[3].d
            /\ (h = ScriptHeader =>
                   e = << [n |-> 49, d |-> 2, p |-> 0], [n |-> -49, d |-> 2, p |-> 0],
                          [n |-> -49, d |-> 2, p |-> 0], [n |-> 49, d |-> 2, p |-> 0] >>)

C7_Witness ==
    /\ im.shown
    /\ header = ScriptHeader
    /\ im.extent[1] = [n |-> 49, d |-> 2, p |-> 0]
    /\ im.extent[3] = [n |-> -49, d |-> 2, p |-> 0]

\* C8: the units factor is 60 for "arcmin", 3600 for "arcsec", pi / 180 for
\* "rad" and 1 for any other label; constructing a DataConfig never fails and
\* the factor is positive.
C8_UnitsFactor ==
    dc_pc # "new" =>
        /\ u_factor =
              CASE dc_units = "arcmin" -> [n |-> 60, d |-> 1, p |-> 0]
                [] dc_units = "arcsec" -> [n |-> 3600, d |-> 1, p |-> 0]
                [] dc_units = "rad" -> [n |-> 1, d |-> 180, p |-> 1]
                [] OTHER -> [n |-> 1, d |-> 1, p |-> 0]
        /\ u_factor.n > 0 /\ u_factor.d > 0

C8_Witness ==
    /\ dc_pc = "ready"
    /\ dc_units = "Arcmin"
    /\ u_factor = [n |-> 1, d |-> 1, p |-> 0]

\* C9: constructed with exactly one of vmin, vmax, a non-empty cube gets
\* both bounds from the cube and the supplied one is dropped; with both
\* supplied the caller's values are kept.
C9_PartialOverrideRecomputed ==
    (Constructed /\ Len(cube) >= 1) =>
        /\ (arg_vmin.some # arg_vmax.some =>
               /\ vmin = [some |-> TRUE, v |-> GlobalMin(cube)]
               /\ vmax = [some |-> TRUE, v |-> GlobalMax(cube)])
        /\ (arg_vmin.some /\ arg_vmax.some => vmin = arg_vmin /\ vmax = arg_vmax)

C9_Witness ==
    /\ pc = "constructed"
    /\ arg_vmin.some /\ ~arg_vmax.some
    /\ vmin # arg_vmin
    /\ vmax.some

\* C10 as claimed: for non-zero cdelt1, cdelt2 of either sign and crpix1,
\* crpix2 >= 1, x is a non-empty strictly decreasing sequence from x1 in
\* steps of -dx that stops before -x1 - dx, and y a non-empty strictly
\* increasing sequence from -y1 in steps of dy that stops before y1 + dy
\* ("before" in the direction of the step).
C10_AxesDirections ==
    (/\ dc_pc \in {"done", "error"}
     /\ dc_header.cdelt1.n # 0 /\ dc_header.cdelt2.n # 0
     /\ ~Lt(dc_header.crpix1, One) /\ ~Lt(dc_header.crpix2, One)) =>
        LET x == dc_axes.x
            y == dc_axes.y
            dx == Mul(dc_header.cdelt1, u_factor)
            dy == Mul(dc_header.cdelt2, u_factor)
        IN  /\ dc_pc = "done"
            /\ Len(x) >= 1
            /\ x[1] = dc_axes.x1
            /\ \A k \in 1..(Len(x) - 1) : Lt(x[k + 1], x[k]) /\ Sub(x[k + 1], x[k]) = Neg(dx)
            /\ \A k \in 1..Len(x) : IsPos(Mul(Sub(Sub(Neg(dc_axes.x1), dx), x[k]), Neg(dx)))
            /\ Len(y) >= 1
            /\ y[1] = Neg(dc_axes.y1)
            /\ \A k \in 1..(Len(y) - 1) : Lt(y[k], y[k + 1]) /\ Sub(y[k + 1], y[k]) = dy
            /\ \A k \in 1..Len(y) : IsPos(Mul(Sub(Add(dc_axes.y1, dy), y[k]), dy))

====
